---- MODULE Spec2Model ----
(***************************************************************************)
(* A model of snll1/skiplist: LockedSkipList (per-node mutex, marked /     *)
(* fully_linked flags, optimistic find) and FatSkipList (one mutex).       *)
(* Every access of LockedSkipList to memory that another thread may write  *)
(* is a step of its own, so that the interleavings of find, insert, remove *)
(* and search are those of the code.                                       *)
(***************************************************************************)
EXTENDS Integers, Sequences, FiniteSets, TLC

\* ------------------------------------------------------------- bounds
\* Worker threads, keys 1..MaxKey, values 1..MaxVal, calls per worker, searches
\* of the main thread after the workers are joined, calls of a sequential run.
NumThreads == 2
MaxKey == 2
MaxVal == 2
MaxOps == 1
MaxChecks == 1
SeqOps == 3
\* Calls per worker in a run of test_random_ops.
RandOps == 2
\* LockedSkipList(max_level, prob): the constructor's max_level.
max_level_ == 1

\* The main thread builds the list, starts the workers, joins them and checks.
Main == 0
Workers == 1..NumThreads
Threads == {Main} \cup Workers
Keys == 1..MaxKey
Values == 1..MaxVal
Levels == 0..max_level_
MaxNodes == MaxKey + NumThreads * MaxOps + SeqOps

\* ------------------------------------------------------------- memory
header_ == 0
tail_ == 1
NULL == -1
NodeIds == 0..(MaxNodes + 1)
\* K() and V{}: the default-constructed key and value.
DefaultK == 0
DefaultV == 0

VARIABLES
    node,   \* the heap: NodeIds -> Node record (st: "free", "live", "dead")
    pc,     \* each thread's position in the operation it runs
    loc,    \* each thread's local variables
    ops,    \* how many operations each thread has invoked
    hist,   \* the calls made so far, their results and their real-time order
    uaf,    \* whether some thread has used a node after its destruction
    fat,    \* the FatSkipList that is given the calls of a sequential run
    fret,   \* what the FatSkipList returned for the last of these calls (ok, rv)
            \* and for the one before (pok)
    snap,   \* the two lists as the last call of a sequential run found them
    amap,   \* the ordered map as the last call of a sequential run found it
    fmap,   \* the same with an insert that overwrites the value of a present key
    fe      \* each thread's FatSkipList::for_each in progress: its local node

mirror == <<fat, fret, snap, amap, fmap, fe>>
vars == <<node, pc, loc, ops, hist, uaf, fat, fret, snap, amap, fmap, fe>>

\* Node(k, v, level): forward.resize(level + 1, nullptr), both flags false.
NewNode(k, v, level) ==
    [st |-> "live", key |-> k, value |-> v,
     forward |-> [L \in Levels |-> NULL],
     marked |-> FALSE, fully_linked |-> FALSE,
     node_level |-> level, mtx |-> NULL]

FreeNode ==
    [st |-> "free", key |-> DefaultK, value |-> DefaultV,
     forward |-> [L \in Levels |-> NULL],
     marked |-> FALSE, fully_linked |-> FALSE,
     node_level |-> 0, mtx |-> NULL]

\* delete n: the storage is released; what it held is no longer defined.
DeadNode == [FreeNode EXCEPT !.st = "dead"]

\* LockedSkipList(max_level, prob): header of full height, tail of height 0,
\* every header->forward[i] = tail.
EmptyList ==
    [n \in NodeIds |->
        IF n = header_
        THEN [NewNode(DefaultK, DefaultV, max_level_) EXCEPT
                 !.forward = [L \in Levels |-> tail_]]
        ELSE IF n = tail_ THEN NewNode(DefaultK, DefaultV, 0)
        ELSE FreeNode]

IsDead(n) == node[n].st = "dead"

\* The step uses the nodes S: through a pointer to a destroyed node that is a
\* use after free.
Touch(S) == uaf' = (uaf \/ \E n \in S : IsDead(n))

\* A read through a pointer to a destroyed node is undefined: it may yield any
\* value of the field's type.  A read of a live node yields the field.
AnyKey == Keys \cup {DefaultK, MaxKey + 1}
RdKey(n) == IF IsDead(n) THEN AnyKey ELSE {node[n].key}
RdValue(n) == IF IsDead(n) THEN Values \cup {DefaultV} ELSE {node[n].value}
RdMarked(n) == IF IsDead(n) THEN BOOLEAN ELSE {node[n].marked}
RdFullyLinked(n) == IF IsDead(n) THEN BOOLEAN ELSE {node[n].fully_linked}
RdLevel(n) == IF IsDead(n) THEN Levels ELSE {node[n].node_level}
\* Any pointer that can still be followed at level L.
Followable(L) ==
    {m \in NodeIds : \/ m = tail_
                     \/ node[m].st = "live" /\ node[m].node_level >= L
                     \/ node[m].st = "dead"}
RdForward(n, L) == IF IsDead(n) THEN Followable(L) ELSE {node[n].forward[L]}

\* Writes to a destroyed node change nothing that a later read can rely on.
WrForward(nd, n, L, m) ==
    IF nd[n].st = "dead" THEN nd ELSE [nd EXCEPT ![n].forward[L] = m]
WrMarked(nd, n) ==
    IF nd[n].st = "dead" THEN nd ELSE [nd EXCEPT ![n].marked = TRUE]

\* mtx.lock(): blocks while another thread owns the mutex (mtx holds the owner,
\* NULL when there is none).  The mutex of a
\* destroyed node has no defined state: the call may return at once.
CanLock(n, t) == IsDead(n) \/ node[n].mtx = NULL
Lock(nd, n, t) == IF nd[n].st = "dead" THEN nd ELSE [nd EXCEPT ![n].mtx = t]
\* mtx.unlock(): releases the mutex.  Unlocking a mutex the caller does not own
\* is undefined: it either releases the owner's lock or changes nothing.
UnlockOutcomes(nd, n, t) ==
    IF nd[n].st = "dead" THEN {nd}
    ELSE IF nd[n].mtx = t THEN {[nd EXCEPT ![n].mtx = NULL]}
    ELSE {[nd EXCEPT ![n].mtx = NULL], nd}

RECURSIVE UnlockAllOutcomes(_, _, _)
UnlockAllOutcomes(nd, S, t) ==
    IF S = {} THEN {nd}
    ELSE LET n == CHOOSE x \in S : TRUE
         IN UNION {UnlockAllOutcomes(nd2, S \ {n}, t) :
                       nd2 \in UnlockOutcomes(nd, n, t)}

\* ------------------------------------------------------------- threads
InitLoc ==
    [op |-> "none", key |-> 0, value |-> 0, node_level |-> 0,
     preds |-> [L \in Levels |-> NULL], succs |-> [L \in Levels |-> NULL],
     found_level |-> -1, pred |-> NULL, level |-> 0,
     found |-> -1, node_found |-> NULL, victim |-> NULL, is_marked |-> FALSE,
     locked_nodes |-> {}, valid |-> TRUE, new_node |-> NULL]

\* The locals find() starts from: pred = header_, found = -1, level = max_level_.
StartFind(l) ==
    [l EXCEPT !.pred = header_, !.found = -1, !.level = max_level_]

\* The record of a call: who called what, what it returned once done, and
\* which calls had already returned when it was invoked (real-time order).
CallRec(t, i, op, k, v) ==
    [id |-> <<t, i>>, op |-> op, key |-> k, value |-> v, done |-> FALSE,
     ok |-> FALSE, rv |-> DefaultV,
     after |-> {r.id : r \in {x \in hist : x.done}}]

MyCall(t) == CHOOSE r \in hist : r.id = <<t, ops[t]>>

\* A call returns: the result is recorded and the locals go out of scope.
Return(t, ok, v) ==
    /\ hist' = (hist \ {MyCall(t)}) \cup
                  {[MyCall(t) EXCEPT !.done = TRUE, !.ok = ok, !.rv = v]}
    /\ loc' = [loc EXCEPT ![t] = InitLoc]
    /\ pc' = [pc EXCEPT ![t] = "idle"]

\* ------------------------------------------------------------- invoke
\* A call begins: its parameters and the locals it declares before its first
\* find (search: line 72; insert: lines 105-106, node_level = get_rand_level();
\* remove: lines 161-164, victim = nullptr, is_marked = false, node_level = -1).
Begin(t, op, k, v, lvl) ==
    /\ pc[t] = "idle"
    /\ loc' = [loc EXCEPT ![t] =
                 StartFind([InitLoc EXCEPT !.op = op, !.key = k, !.value = v,
                                           !.node_level = lvl])]
    /\ pc' = [pc EXCEPT ![t] = "find"]
    /\ ops' = [ops EXCEPT ![t] = @ + 1]
    /\ UNCHANGED <<node, uaf>>

InvokeSearch(t, k) ==
    /\ Begin(t, "search", k, DefaultV, 0)
    /\ hist' = hist \cup {CallRec(t, ops[t] + 1, "search", k, DefaultV)}
    /\ UNCHANGED mirror

\* get_rand_level() (lines 249-256) returns any level in [0, max_level_].
InvokeInsert(t, k, v, lvl) ==
    /\ Begin(t, "insert", k, v, lvl)
    /\ hist' = hist \cup {CallRec(t, ops[t] + 1, "insert", k, v)}
    /\ UNCHANGED mirror

InvokeRemove(t, k) ==
    /\ Begin(t, "remove", k, DefaultV, -1)
    /\ hist' = hist \cup {CallRec(t, ops[t] + 1, "remove", k, DefaultV)}
    /\ UNCHANGED mirror

\* ------------------------------------------------------------- find
AfterFind(op) ==
    CASE op = "search" -> "search_check"
      [] op = "insert" -> "ins_found"
      [] op = "remove" -> "rem_found"

\* The level is finished: found, preds[level], succs[level] are set (lines
\* 93-98), and find goes one level down or returns found.
FindDescend(l, c, k) ==
    LET fnd == IF l.found = -1 /\ c # tail_ /\ l.key = k
               THEN l.level ELSE l.found
        l2 == [l EXCEPT !.found = fnd,
                        !.preds[l.level] = l.pred,
                        !.succs[l.level] = c]
    IN IF l.level = 0
       THEN [l2 EXCEPT !.found_level = fnd, !.pred = NULL, !.found = -1]
       ELSE [l2 EXCEPT !.level = l.level - 1]

\* One iteration of find's walk (lines 88-98): curr = pred->forward[level] is
\* loaded, and curr->key, which no one writes while curr lives, is compared:
\* key > curr->key moves pred forward, anything else ends the level.
Find(t) ==
    /\ pc[t] = "find"
    /\ UNCHANGED mirror
    /\ LET l == loc[t] IN
       \E c \in RdForward(l.pred, l.level) :
       \E k \in (IF c = tail_ THEN {DefaultK} ELSE RdKey(c)) :
          /\ Touch({l.pred, c})
          /\ IF c # tail_ /\ l.key > k
             THEN /\ loc' = [loc EXCEPT ![t].pred = c]
                  /\ UNCHANGED pc
             ELSE /\ loc' = [loc EXCEPT ![t] = FindDescend(l, c, k)]
                  /\ pc' = [pc EXCEPT ![t] =
                               IF l.level = 0 THEN AfterFind(l.op) ELSE "find"]
    /\ UNCHANGED <<node, ops, hist>>

\* ------------------------------------------------------------- search
\* lines 74-81: after find, node = succs[found_level]; the flags are read in
\* the order fully_linked, marked; the value is copied last.
SearchCheck(t) ==
    /\ pc[t] = "search_check"
    /\ Touch(IF loc[t].found_level = -1 THEN {} ELSE {loc[t].succs[loc[t].found_level]})
    /\ UNCHANGED mirror
    /\ LET l == loc[t]
           n == l.succs[l.found_level]
       IN IF l.found_level = -1
          THEN Return(t, FALSE, DefaultV)
          ELSE \E k \in RdKey(n), fl \in RdFullyLinked(n) :
                  IF n # tail_ /\ k = l.key /\ fl
                  THEN /\ pc' = [pc EXCEPT ![t] = "search_marked"]
                       /\ loc' = [loc EXCEPT ![t].node_found = n]
                       /\ UNCHANGED hist
                  ELSE Return(t, FALSE, DefaultV)
    /\ UNCHANGED <<node, ops>>

SearchMarked(t) ==
    /\ pc[t] = "search_marked"
    /\ Touch({loc[t].node_found})
    /\ UNCHANGED mirror
    /\ \E m \in RdMarked(loc[t].node_found) :
          IF m THEN Return(t, FALSE, DefaultV)
          ELSE /\ pc' = [pc EXCEPT ![t] = "search_value"]
               /\ UNCHANGED <<loc, hist>>
    /\ UNCHANGED <<node, ops>>

SearchValue(t) ==
    /\ pc[t] = "search_value"
    /\ Touch({loc[t].node_found})
    /\ UNCHANGED mirror
    /\ \E v \in RdValue(loc[t].node_found) : Return(t, TRUE, v)
    /\ UNCHANGED <<node, ops>>

\* ------------------------------------------------------------- insert
\* The smallest storage not yet handed out: new Node(...).
FreshNode == CHOOSE n \in NodeIds : node[n].st = "free" /\
                 \A m \in NodeIds : node[m].st = "free" => n <= m

\* lines 108-119: the key was found or not.
InsFound(t) ==
    /\ pc[t] = "ins_found"
    /\ Touch(IF loc[t].found_level = -1 THEN {} ELSE {loc[t].succs[loc[t].found_level]})
    /\ UNCHANGED mirror
    /\ LET l == loc[t]
           n == l.succs[l.found_level]
       IN IF l.found_level # -1
          THEN \E m \in RdMarked(n) :
                  IF ~m
                  THEN /\ loc' = [loc EXCEPT ![t].node_found = n]
                       /\ pc' = [pc EXCEPT ![t] = "ins_spin"]
                  ELSE /\ loc' = [loc EXCEPT ![t] = StartFind(l)]
                       /\ pc' = [pc EXCEPT ![t] = "find"]
          ELSE /\ loc' = [loc EXCEPT ![t].valid = TRUE, ![t].locked_nodes = {},
                                     ![t].level = 0]
               /\ pc' = [pc EXCEPT ![t] = "ins_lock"]
    /\ UNCHANGED <<node, ops, hist>>

\* A variant of InsSpin that stores the new value in the node found, as
\* FatSkipList::insert does, before it returns false.
InsSpinOverwrite(t) ==
    /\ pc[t] = "ins_spin"
    /\ Touch({loc[t].node_found})
    /\ UNCHANGED mirror
    /\ TRUE \in RdFullyLinked(loc[t].node_found)
    /\ node' = [node EXCEPT ![loc[t].node_found].value = loc[t].value]
    /\ Return(t, FALSE, DefaultV)
    /\ UNCHANGED ops

\* while (!node_found->fully_linked) {} break; ... return false  (lines 114-116, 157)
InsSpin(t) ==
    /\ pc[t] = "ins_spin"
    /\ Touch({loc[t].node_found})
    /\ UNCHANGED mirror
    /\ TRUE \in RdFullyLinked(loc[t].node_found)
    /\ Return(t, FALSE, DefaultV)
    /\ UNCHANGED <<node, ops>>

\* A variant of InsLock that goes on to the validation without the lock.
InsLockSkipped(t) ==
    /\ pc[t] = "ins_lock"
    /\ Touch({})
    /\ UNCHANGED mirror
    /\ pc' = [pc EXCEPT ![t] = "ins_validate"]
    /\ UNCHANGED <<node, loc, ops, hist>>

\* A variant of InsLock that does not record the locked node in locked_nodes.
InsLockUnrecorded(t) ==
    /\ pc[t] = "ins_lock"
    /\ Touch({loc[t].preds[loc[t].level]} \ loc[t].locked_nodes)
    /\ UNCHANGED mirror
    /\ LET l == loc[t]
           pred == l.preds[l.level]
       IN /\ CanLock(pred, t)
          /\ node' = Lock(node, pred, t)
          /\ UNCHANGED loc
    /\ pc' = [pc EXCEPT ![t] = "ins_validate"]
    /\ UNCHANGED <<ops, hist>>

\* lines 124-129: lock preds[level] unless this call already holds it.
InsLock(t) ==
    /\ pc[t] = "ins_lock"
    /\ Touch({loc[t].preds[loc[t].level]} \ loc[t].locked_nodes)
    /\ UNCHANGED mirror
    /\ LET l == loc[t]
           pred == l.preds[l.level]
       IN IF pred \in l.locked_nodes
          THEN UNCHANGED <<node, loc>>
          ELSE /\ CanLock(pred, t)
               /\ node' = Lock(node, pred, t)
               /\ loc' = [loc EXCEPT ![t].locked_nodes = @ \cup {pred}]
    /\ pc' = [pc EXCEPT ![t] = "ins_validate"]
    /\ UNCHANGED <<ops, hist>>

\* A variant of InsValidate that checks the marks only, not that pred still
\* points to succ.
InsValidateMarksOnly(t) ==
    /\ pc[t] = "ins_validate"
    /\ Touch({loc[t].preds[loc[t].level], loc[t].succs[loc[t].level]})
    /\ UNCHANGED mirror
    /\ LET l == loc[t]
           pred == l.preds[l.level]
           succ == l.succs[l.level]
       IN \E pm \in RdMarked(pred), sm \in RdMarked(succ) :
             IF pm \/ sm
             THEN /\ loc' = [loc EXCEPT ![t].valid = FALSE]
                  /\ pc' = [pc EXCEPT ![t] = "ins_retry"]
             ELSE IF l.level = l.node_level
                  THEN /\ pc' = [pc EXCEPT ![t] = "ins_alloc"]
                       /\ UNCHANGED loc
                  ELSE /\ loc' = [loc EXCEPT ![t].level = l.level + 1]
                       /\ pc' = [pc EXCEPT ![t] = "ins_lock"]
    /\ UNCHANGED <<node, ops, hist>>

\* line 131: pred->marked || succ->marked || pred->forward[level] != succ
InsValidate(t) ==
    /\ pc[t] = "ins_validate"
    /\ Touch({loc[t].preds[loc[t].level], loc[t].succs[loc[t].level]})
    /\ UNCHANGED mirror
    /\ LET l == loc[t]
           pred == l.preds[l.level]
           succ == l.succs[l.level]
       IN \E pm \in RdMarked(pred), sm \in RdMarked(succ),
             f \in RdForward(pred, l.level) :
             IF pm \/ sm \/ f # succ
             THEN /\ loc' = [loc EXCEPT ![t].valid = FALSE]
                  /\ pc' = [pc EXCEPT ![t] = "ins_retry"]
             ELSE IF l.level = l.node_level
                  THEN /\ pc' = [pc EXCEPT ![t] = "ins_alloc"]
                       /\ UNCHANGED loc
                  ELSE /\ loc' = [loc EXCEPT ![t].level = l.level + 1]
                       /\ pc' = [pc EXCEPT ![t] = "ins_lock"]
    /\ UNCHANGED <<node, ops, hist>>

\* lines 137-143: unlock what was locked and run find again.
InsRetry(t) ==
    /\ pc[t] = "ins_retry"
    /\ Touch(loc[t].locked_nodes)
    /\ UNCHANGED mirror
    /\ node' \in UnlockAllOutcomes(node, loc[t].locked_nodes, t)
    /\ loc' = [loc EXCEPT ![t] = StartFind([loc[t] EXCEPT !.locked_nodes = {},
                                                          !.valid = TRUE])]
    /\ pc' = [pc EXCEPT ![t] = "find"]
    /\ UNCHANGED <<ops, hist>>

\* line 145: new Node(key, value, node_level)
InsAlloc(t) ==
    /\ pc[t] = "ins_alloc"
    /\ Touch({})
    /\ UNCHANGED mirror
    /\ \E n \in NodeIds : node[n].st = "free"
    /\ node' = [node EXCEPT ![FreshNode] =
                   NewNode(loc[t].key, loc[t].value, loc[t].node_level)]
    /\ loc' = [loc EXCEPT ![t].new_node = FreshNode, ![t].level = 0]
    /\ pc' = [pc EXCEPT ![t] = "ins_link"]
    /\ UNCHANGED <<ops, hist>>

\* lines 146-149, one level: new_node->forward[level] = succs[level];
\* preds[level]->forward[level] = new_node.
InsLink(t) ==
    /\ pc[t] = "ins_link"
    /\ Touch({loc[t].preds[loc[t].level]})
    /\ UNCHANGED mirror
    /\ LET l == loc[t]
           n1 == [node EXCEPT ![l.new_node].forward[l.level] = l.succs[l.level]]
       IN /\ node' = WrForward(n1, l.preds[l.level], l.level, l.new_node)
          /\ IF l.level = l.node_level
             THEN /\ pc' = [pc EXCEPT ![t] = "ins_publish"]
                  /\ UNCHANGED loc
             ELSE /\ loc' = [loc EXCEPT ![t].level = l.level + 1]
                  /\ UNCHANGED pc
    /\ UNCHANGED <<ops, hist>>

\* line 151: new_node->fully_linked = true
InsPublish(t) ==
    /\ pc[t] = "ins_publish"
    /\ Touch({loc[t].new_node})
    /\ UNCHANGED mirror
    /\ node' = [node EXCEPT ![loc[t].new_node].fully_linked = TRUE]
    /\ pc' = [pc EXCEPT ![t] = "ins_unlock"]
    /\ UNCHANGED <<loc, ops, hist>>

\* lines 152-155: unlock the predecessors, return true.
InsUnlock(t) ==
    /\ pc[t] = "ins_unlock"
    /\ Touch(loc[t].locked_nodes)
    /\ UNCHANGED mirror
    /\ node' \in UnlockAllOutcomes(node, loc[t].locked_nodes, t)
    /\ Return(t, TRUE, DefaultV)
    /\ UNCHANGED ops

\* ------------------------------------------------------------- remove
\* lines 166-175: not found returns false; an eligible victim (fully linked,
\* found at its top level, not marked) is locked next; otherwise find again.
RemFound(t) ==
    /\ pc[t] = "rem_found"
    /\ Touch(IF loc[t].found_level = -1 \/ loc[t].is_marked THEN {} ELSE {loc[t].succs[loc[t].found_level]})
    /\ UNCHANGED mirror
    /\ LET l == loc[t]
           v == l.succs[l.found_level]
       IN IF l.found_level = -1
          THEN Return(t, FALSE, DefaultV)
          ELSE /\ UNCHANGED hist
               /\ IF l.is_marked
                  THEN /\ loc' = [loc EXCEPT ![t].victim = v, ![t].level = 0,
                                     ![t].locked_nodes = {}, ![t].valid = TRUE]
                       /\ pc' = [pc EXCEPT ![t] = "rem_lock"]
                  ELSE \E fl \in RdFullyLinked(v), nl \in RdLevel(v),
                          m \in RdMarked(v) :
                          IF fl /\ nl = l.found_level /\ ~m
                          THEN /\ loc' = [loc EXCEPT ![t].victim = v,
                                                     ![t].node_level = nl]
                               /\ pc' = [pc EXCEPT ![t] = "rem_lock_victim"]
                          ELSE /\ loc' = [loc EXCEPT ![t] = StartFind(l)]
                               /\ pc' = [pc EXCEPT ![t] = "find"]
    /\ UNCHANGED <<node, ops>>

\* line 176: victim->lock()
RemLockVictim(t) ==
    /\ pc[t] = "rem_lock_victim"
    /\ Touch({loc[t].victim})
    /\ UNCHANGED mirror
    /\ CanLock(loc[t].victim, t)
    /\ node' = Lock(node, loc[t].victim, t)
    /\ pc' = [pc EXCEPT ![t] = "rem_mark"]
    /\ UNCHANGED <<loc, ops, hist>>

\* lines 177-183: already marked: unlock, return false; else mark it.
RemMark(t) ==
    /\ pc[t] = "rem_mark"
    /\ Touch({loc[t].victim})
    /\ UNCHANGED mirror
    /\ LET l == loc[t] IN
       \E m \in RdMarked(l.victim) :
          IF m
          THEN /\ node' \in UnlockOutcomes(node, l.victim, t)
               /\ Return(t, FALSE, DefaultV)
          ELSE /\ node' = WrMarked(node, l.victim)
               /\ loc' = [loc EXCEPT ![t].is_marked = TRUE, ![t].level = 0,
                                     ![t].locked_nodes = {}, ![t].valid = TRUE]
               /\ pc' = [pc EXCEPT ![t] = "rem_lock"]
               /\ UNCHANGED hist
    /\ UNCHANGED ops

\* lines 189-193: lock preds[level] unless this call already holds it.
RemLock(t) ==
    /\ pc[t] = "rem_lock"
    /\ Touch({loc[t].preds[loc[t].level]} \ loc[t].locked_nodes)
    /\ UNCHANGED mirror
    /\ LET l == loc[t]
           pred == l.preds[l.level]
       IN IF pred \in l.locked_nodes
          THEN UNCHANGED <<node, loc>>
          ELSE /\ CanLock(pred, t)
               /\ node' = Lock(node, pred, t)
               /\ loc' = [loc EXCEPT ![t].locked_nodes = @ \cup {pred}]
    /\ pc' = [pc EXCEPT ![t] = "rem_validate"]
    /\ UNCHANGED <<ops, hist>>

\* Where remove goes when the validation of a level fails (lines 194-197
\* set valid = false and leave the loop).
RemAfterInvalid == "rem_invalid"

\* line 194: pred->marked || pred->forward[level] != victim
RemValidate(t) ==
    /\ pc[t] = "rem_validate"
    /\ Touch({loc[t].preds[loc[t].level]})
    /\ UNCHANGED mirror
    /\ LET l == loc[t]
           pred == l.preds[l.level]
       IN \E pm \in RdMarked(pred), f \in RdForward(pred, l.level) :
             IF pm \/ f # l.victim
             THEN /\ loc' = [loc EXCEPT ![t].valid = FALSE]
                  /\ pc' = [pc EXCEPT ![t] = RemAfterInvalid]
             ELSE IF l.level = l.node_level
                  THEN /\ loc' = [loc EXCEPT ![t].level = l.node_level]
                       /\ pc' = [pc EXCEPT ![t] = "rem_unlink"]
                  ELSE /\ loc' = [loc EXCEPT ![t].level = l.level + 1]
                       /\ pc' = [pc EXCEPT ![t] = "rem_lock"]
    /\ UNCHANGED <<node, ops, hist>>

\* lines 200-205: if (!valid) the locked predecessors are unlocked.  The block
\* ends there: control falls through to the unlink loop of line 207.
RemInvalid(t) ==
    /\ pc[t] = "rem_invalid"
    /\ Touch(loc[t].locked_nodes)
    /\ UNCHANGED mirror
    /\ node' \in UnlockAllOutcomes(node, loc[t].locked_nodes, t)
    /\ loc' = [loc EXCEPT ![t].level = loc[t].node_level]
    /\ pc' = [pc EXCEPT ![t] = "rem_unlink"]
    /\ UNCHANGED <<ops, hist>>

\* A variant of RemUnlink that leaves the predecessors pointing to the victim.
RemUnlinkSkipped(t) ==
    /\ pc[t] = "rem_unlink"
    /\ Touch({loc[t].victim, loc[t].preds[loc[t].level]})
    /\ UNCHANGED mirror
    /\ LET l == loc[t] IN
       IF l.level = 0
       THEN /\ pc' = [pc EXCEPT ![t] = "rem_unlock_victim"]
            /\ UNCHANGED loc
       ELSE /\ loc' = [loc EXCEPT ![t].level = l.level - 1]
            /\ UNCHANGED pc
    /\ UNCHANGED <<node, ops, hist>>

\* lines 207-209, one level: preds[level]->forward[level] = victim->forward[level]
RemUnlink(t) ==
    /\ pc[t] = "rem_unlink"
    /\ Touch({loc[t].victim, loc[t].preds[loc[t].level]})
    /\ UNCHANGED mirror
    /\ LET l == loc[t] IN
       /\ \E f \in RdForward(l.victim, l.level) :
             node' = WrForward(node, l.preds[l.level], l.level, f)
       /\ IF l.level = 0
          THEN /\ pc' = [pc EXCEPT ![t] = "rem_unlock_victim"]
               /\ UNCHANGED loc
          ELSE /\ loc' = [loc EXCEPT ![t].level = l.level - 1]
               /\ UNCHANGED pc
    /\ UNCHANGED <<ops, hist>>

\* line 211: victim->unlock()
RemUnlockVictim(t) ==
    /\ pc[t] = "rem_unlock_victim"
    /\ Touch({loc[t].victim})
    /\ UNCHANGED mirror
    /\ node' \in UnlockOutcomes(node, loc[t].victim, t)
    /\ pc' = [pc EXCEPT ![t] = "rem_delete"]
    /\ UNCHANGED <<loc, ops, hist>>

\* line 212: delete victim
RemDelete(t) ==
    /\ pc[t] = "rem_delete"
    /\ Touch({loc[t].victim})
    /\ UNCHANGED mirror
    /\ node' = [node EXCEPT ![loc[t].victim] = DeadNode]
    /\ pc' = [pc EXCEPT ![t] = "rem_unlock"]
    /\ UNCHANGED <<loc, ops, hist>>

\* lines 214-217: unlock every node of locked_nodes, return true.
RemUnlock(t) ==
    /\ pc[t] = "rem_unlock"
    /\ Touch(loc[t].locked_nodes)
    /\ UNCHANGED mirror
    /\ node' \in UnlockAllOutcomes(node, loc[t].locked_nodes, t)
    /\ Return(t, TRUE, DefaultV)
    /\ UNCHANGED ops

\* ------------------------------------------------------------- lists
\* The list a sequential run of insert calls builds from contents c, a function
\* from the keys present to the level of each key's node: node NodeOf(c, k)
\* holds key k, and at every level L the chain links the nodes of height >= L
\* in key order.
Contents == UNION {[S -> Levels] : S \in SUBSET Keys}
InitValue == CHOOSE v \in Values : \A w \in Values : v <= w
NodeOf(c, k) == tail_ + Cardinality({j \in DOMAIN c : j <= k})
NextAt(c, k, L) ==
    LET S == {j \in DOMAIN c : j > k /\ c[j] >= L}
    IN IF S = {} THEN tail_
       ELSE NodeOf(c, CHOOSE j \in S : \A i \in S : j <= i)
BuildList(c) ==
    [n \in NodeIds |->
        IF n = header_
        THEN [NewNode(DefaultK, DefaultV, max_level_) EXCEPT
                 !.forward = [L \in Levels |-> NextAt(c, DefaultK, L)]]
        ELSE IF n = tail_ THEN NewNode(DefaultK, DefaultV, 0)
        ELSE IF \E k \in DOMAIN c : NodeOf(c, k) = n
        THEN LET k == CHOOSE k \in DOMAIN c : NodeOf(c, k) = n
             IN [NewNode(k, InitValue, c[k]) EXCEPT
                    !.fully_linked = TRUE,
                    !.forward = [L \in Levels |->
                                    IF L <= c[k] THEN NextAt(c, k, L) ELSE NULL]]
        ELSE FreeNode]

\* The calls of the main thread that built BuildList(c), in key order, each
\* returned before the next was made.
BuildHist(c) ==
    {[id |-> <<Main, -k>>, op |-> "insert", key |-> k, value |-> InitValue,
      done |-> TRUE, ok |-> TRUE, rv |-> DefaultV,
      after |-> {<<Main, -j>> : j \in {i \in DOMAIN c : i < k}}] :
        k \in DOMAIN c}

\* ------------------------------------------------------------- FatSkipList
\* FatSkipList::Node and the list: nodes, cur_level_; no tail, the chains end
\* in nullptr.  Every call holds mutex_ from its first line to its return.
FatNode(k, v) ==
    [st |-> "live", key |-> k, value |-> v, forward |-> [L \in Levels |-> NULL]]
FatFree ==
    [st |-> "free", key |-> DefaultK, value |-> DefaultV,
     forward |-> [L \in Levels |-> NULL]]
\* FatSkipList(max_level, prob): cur_level_(0), header_ of full height.
FatEmpty ==
    [nodes |-> [n \in NodeIds |->
                   IF n = header_ THEN FatNode(DefaultK, DefaultV) ELSE FatFree],
     cur_level_ |-> 0]

\* while (node->forward[level] && node->forward[level]->key < key)
RECURSIVE FatAdvance(_, _, _, _)
FatAdvance(f, n, L, k) ==
    LET nx == f.nodes[n].forward[L]
    IN IF nx # NULL /\ f.nodes[nx].key < k THEN FatAdvance(f, nx, L, k) ELSE n

RECURSIVE FatDescend(_, _, _, _, _)
FatDescend(f, n, L, k, upd) ==
    LET n2 == FatAdvance(f, n, L, k)
        upd2 == [upd EXCEPT ![L] = n2]
    IN IF L = 0
       THEN [to_be_updated |-> upd2, node |-> f.nodes[n2].forward[0]]
       ELSE FatDescend(f, n2, L - 1, k, upd2)

\* find_node(key, &to_be_updated): from cur_level_ down to 0.
find_node(f, k) ==
    FatDescend(f, header_, f.cur_level_, k, [L \in Levels |-> NULL])

FatFresh(f) == CHOOSE n \in NodeIds : f.nodes[n].st = "free" /\
                   \A m \in NodeIds : f.nodes[m].st = "free" => n <= m

\* A variant of FatInsert that leaves the value of an existing key as it is.
FatInsertKeep(f, k, v, lvl) ==
    LET r == find_node(f, k) IN
    IF r.node # NULL /\ f.nodes[r.node].key = k
    THEN [list |-> f, ok |-> FALSE, rv |-> DefaultV]
    ELSE LET upd == [L \in Levels |->
                        IF L > f.cur_level_ /\ L <= lvl THEN header_
                        ELSE r.to_be_updated[L]]
             id == FatFresh(f)
             new == [FatNode(k, v) EXCEPT
                        !.forward = [L \in Levels |->
                                        IF L <= lvl THEN f.nodes[upd[L]].forward[L]
                                        ELSE NULL]]
         IN [list |->
                [nodes |-> [n \in NodeIds |->
                     IF n = id THEN new
                     ELSE [f.nodes[n] EXCEPT
                              !.forward = [L \in Levels |->
                                  IF L <= lvl /\ upd[L] = n THEN id
                                  ELSE f.nodes[n].forward[L]]]],
                 cur_level_ |-> IF lvl > f.cur_level_ THEN lvl ELSE f.cur_level_],
             ok |-> TRUE, rv |-> DefaultV]

\* FatSkipList::insert: an existing key has its value overwritten and false
\* returned; else a node of level lvl is spliced in at levels 0..lvl.
FatInsert(f, k, v, lvl) ==
    LET r == find_node(f, k) IN
    IF r.node # NULL /\ f.nodes[r.node].key = k
    THEN [list |-> [f EXCEPT !.nodes[r.node].value = v], ok |-> FALSE, rv |-> DefaultV]
    ELSE LET upd == [L \in Levels |->
                        IF L > f.cur_level_ /\ L <= lvl THEN header_
                        ELSE r.to_be_updated[L]]
             id == FatFresh(f)
             new == [FatNode(k, v) EXCEPT
                        !.forward = [L \in Levels |->
                                        IF L <= lvl THEN f.nodes[upd[L]].forward[L]
                                        ELSE NULL]]
         IN [list |->
                [nodes |-> [n \in NodeIds |->
                     IF n = id THEN new
                     ELSE [f.nodes[n] EXCEPT
                              !.forward = [L \in Levels |->
                                  IF L <= lvl /\ upd[L] = n THEN id
                                  ELSE f.nodes[n].forward[L]]]],
                 cur_level_ |-> IF lvl > f.cur_level_ THEN lvl ELSE f.cur_level_],
             ok |-> TRUE, rv |-> DefaultV]

\* for (level = 0; level <= cur_level_; level++) { if (to_be_updated[level]->
\* forward[level] != node) break; ... = node->forward[level]; }
RECURSIVE FatUnlink(_, _, _, _)
FatUnlink(f, upd, n, L) ==
    IF L > f.cur_level_ THEN f
    ELSE IF f.nodes[upd[L]].forward[L] # n THEN f
    ELSE FatUnlink([f EXCEPT !.nodes[upd[L]].forward[L] = f.nodes[n].forward[L]],
                   upd, n, L + 1)

\* while (cur_level_ > 0 && header_->forward[cur_level_] == nullptr) cur_level_--
RECURSIVE FatLower(_)
FatLower(f) ==
    IF f.cur_level_ > 0 /\ f.nodes[header_].forward[f.cur_level_] = NULL
    THEN FatLower([f EXCEPT !.cur_level_ = @ - 1]) ELSE f

\* FatSkipList::remove
FatRemove(f, k) ==
    LET r == find_node(f, k) IN
    IF r.node = NULL \/ f.nodes[r.node].key # k
    THEN [list |-> f, ok |-> FALSE, rv |-> DefaultV]
    ELSE LET f2 == FatUnlink(f, r.to_be_updated, r.node, 0)
             f3 == [f2 EXCEPT !.nodes[r.node] = [FatFree EXCEPT !.st = "dead"]]
         IN [list |-> FatLower(f3), ok |-> TRUE, rv |-> DefaultV]

\* FatSkipList::search
FatSearch(f, k) ==
    LET r == find_node(f, k) IN
    IF r.node # NULL /\ f.nodes[r.node].key = k
    THEN [list |-> f, ok |-> TRUE, rv |-> f.nodes[r.node].value]
    ELSE [list |-> f, ok |-> FALSE, rv |-> DefaultV]

\* FatSkipList::for_each: the nodes from header_->forward[0] along forward[0]
\* to nullptr.
RECURSIVE FatWalkFrom(_, _, _)
FatWalkFrom(f, n, fuel) ==
    IF n = NULL \/ fuel = 0 THEN <<>>
    ELSE <<n>> \o FatWalkFrom(f, f.nodes[n].forward[0], fuel - 1)
FatWalk(f) == FatWalkFrom(f, f.nodes[header_].forward[0], Cardinality(NodeIds))

FatCall(f, op, k, v, lvl) ==
    CASE op = "insert" -> FatInsert(f, k, v, lvl)
      [] op = "remove" -> FatRemove(f, k)
      [] op = "search" -> FatSearch(f, k)

AllIdle == \A t \in Threads : pc[t] = "idle"

\* ------------------------------------------------------------- the ordered map
\* The sequential ordered map the calls are compared with: a function from
\* the keys present to their values.
EmptyMap == [k \in {} |-> DefaultV]

\* insert true iff key absent, remove true iff key present, search true with
\* the stored value iff key present (else false with V{}).
Legal(m, r) ==
    CASE r.op = "insert" -> r.ok = (r.key \notin DOMAIN m)
      [] r.op = "remove" -> r.ok = (r.key \in DOMAIN m)
      [] r.op = "search" -> /\ r.ok = (r.key \in DOMAIN m)
                            /\ r.rv = (IF r.ok THEN m[r.key] ELSE DefaultV)

Apply(m, r) ==
    CASE r.op = "insert" -> IF r.key \in DOMAIN m THEN m
                            ELSE [k \in DOMAIN m \cup {r.key} |->
                                     IF k = r.key THEN r.value ELSE m[k]]
      [] r.op = "remove" -> [k \in DOMAIN m \ {r.key} |-> m[k]]
      [] r.op = "search" -> m

\* The effect of a call on the map FatSkipList::insert keeps (lines 343-346):
\* an insert of a present key stores the new value.
ApplyOverwrite(m, r) ==
    IF r.op = "insert"
    THEN [k \in DOMAIN m \cup {r.key} |-> IF k = r.key THEN r.value ELSE m[k]]
    ELSE Apply(m, r)

\* The calls R can be put in an order, from map m on, that keeps every call
\* after the calls that returned before it was invoked and gives every
\* returned call the result the map gives; a call that has not returned may
\* take effect or not.
RECURSIVE LinFrom(_, _)
LinFrom(R, m) ==
    \/ \A r \in R : ~r.done
    \/ \E r \in R :
          /\ \A q \in R : q.id \notin r.after
          /\ r.done => Legal(m, r)
          /\ LinFrom(R \ {r}, Apply(m, r))

\* ------------------------------------------------------------- specifications
InitWith(c) ==
    /\ node = BuildList(c)
    /\ pc = [t \in Threads |-> "idle"]
    /\ loc = [t \in Threads |-> InitLoc]
    /\ ops = [t \in Threads |-> 0]
    /\ hist = BuildHist(c)
    /\ uaf = FALSE
    /\ fat = FatEmpty
    /\ fret = [ok |-> FALSE, rv |-> DefaultV, pok |-> FALSE]
    /\ snap = [node |-> BuildList(c), fat |-> FatEmpty]
    /\ amap = [k \in DOMAIN c |-> InitValue]
    /\ fmap = [k \in DOMAIN c |-> InitValue]
    /\ fe = [t \in Threads |-> [active |-> FALSE, node |-> NULL]]

\* The main thread has built a list of any contents.
Init == \E c \in Contents : InitWith(c)

InsertSteps(t) ==
    \/ InsFound(t) \/ InsSpin(t) \/ InsLock(t) \/ InsValidate(t) \/ InsRetry(t)
    \/ InsAlloc(t) \/ InsLink(t) \/ InsPublish(t) \/ InsUnlock(t)

RemoveSteps(t) ==
    \/ RemFound(t) \/ RemLockVictim(t) \/ RemMark(t) \/ RemLock(t)
    \/ RemValidate(t) \/ RemInvalid(t) \/ RemUnlink(t) \/ RemUnlockVictim(t)
    \/ RemDelete(t) \/ RemUnlock(t)

SearchSteps(t) == SearchCheck(t) \/ SearchMarked(t) \/ SearchValue(t)

\* A worker may call while the main thread has not begun its checks.
WorkerMayCall(t) == ops[t] < MaxOps /\ ops[Main] = 0
\* thr.join() of every worker, then list.search(i).
MainCheck(k) == AllIdle /\ ops[Main] < MaxChecks /\ InvokeSearch(Main, k)

\* The workers call insert, remove and search in any order; the main thread
\* joins them and searches.
Next ==
    \/ \E t \in Workers :
        \/ \E k \in Keys : WorkerMayCall(t) /\ InvokeSearch(t, k)
        \/ \E k \in Keys, v \in Values, lvl \in Levels :
              WorkerMayCall(t) /\ InvokeInsert(t, k, v, lvl)
        \/ \E k \in Keys : WorkerMayCall(t) /\ InvokeRemove(t, k)
    \/ \E k \in Keys : MainCheck(k)
    \/ \E t \in Threads :
        Find(t) \/ SearchSteps(t) \/ InsertSteps(t) \/ RemoveSteps(t)

Spec == Init /\ [][Next]_vars

\* The insert-only runs of test_insert: the workers call insert and nothing
\* else; the main thread joins them and searches.
NextIns ==
    \/ \E t \in Workers : \E k \in Keys, v \in Values, lvl \in Levels :
          WorkerMayCall(t) /\ InvokeInsert(t, k, v, lvl)
    \/ \E k \in Keys : MainCheck(k)
    \/ \E t \in Threads : Find(t) \/ SearchSteps(t) \/ InsertSteps(t)

SpecIns == Init /\ [][NextIns]_vars

\* A sequential run (basic_test): the main thread alone calls, each call after
\* the one before has returned, and gives every call to a LockedSkipList and
\* to a FatSkipList.  hist keeps the last two calls.
LastCalls == {r \in hist : r.id = <<Main, ops[Main]>>}

\* lvl is the level get_rand_level() gives the LockedSkipList for the call,
\* flvl the level it gives the FatSkipList.
SeqCallWith(op, k, v, lvl, flvl) ==
    /\ ops[Main] < SeqOps
    /\ Begin(Main, op, k, v, lvl)
    /\ hist' = LastCalls \cup {CallRec(Main, ops[Main] + 1, op, k, v)}
    /\ amap' = IF LastCalls = {} THEN amap ELSE Apply(amap, MyCall(Main))
    /\ fmap' = IF LastCalls = {} THEN fmap ELSE ApplyOverwrite(fmap, MyCall(Main))
    /\ snap' = [node |-> node, fat |-> fat]
    /\ UNCHANGED fe
    /\ LET r == FatCall(fat, op, k, v, flvl)
       IN /\ fat' = r.list
          /\ fret' = [ok |-> r.ok, rv |-> r.rv, pok |-> fret.ok]

SeqCall(op, k, v, lvl) == SeqCallWith(op, k, v, lvl, lvl)

SeqInsert(k, v, lvl) == SeqCall("insert", k, v, lvl)
SeqRemove(k) == SeqCall("remove", k, DefaultV, -1)
SeqSearch(k) == SeqCall("search", k, DefaultV, 0)

\* With one thread no validation fails: insert never reaches its retry (lines
\* 137-143) and remove never finds valid false (lines 200-205).
InitSeq == InitWith(EmptyMap)

NextSeq ==
    \/ \E k \in Keys, v \in Values, lvl \in Levels : SeqInsert(k, v, lvl)
    \/ \E k \in Keys : SeqRemove(k)
    \/ \E k \in Keys : SeqSearch(k)
    \/ Find(Main)
    \/ SearchCheck(Main) \/ SearchMarked(Main) \/ SearchValue(Main)
    \/ InsFound(Main) \/ InsSpin(Main) \/ InsLock(Main) \/ InsValidate(Main)
    \/ InsAlloc(Main) \/ InsLink(Main) \/ InsPublish(Main) \/ InsUnlock(Main)
    \/ RemFound(Main) \/ RemLockVictim(Main) \/ RemMark(Main) \/ RemLock(Main)
    \/ RemValidate(Main) \/ RemUnlink(Main) \/ RemUnlockVictim(Main)
    \/ RemDelete(Main) \/ RemUnlock(Main)

SpecSeq == InitSeq /\ [][NextSeq]_vars

\* The sequential runs in which the two lists draw their levels independently.
SeqSteps ==
    \/ Find(Main)
    \/ SearchCheck(Main) \/ SearchMarked(Main) \/ SearchValue(Main)
    \/ InsFound(Main) \/ InsSpin(Main) \/ InsLock(Main) \/ InsValidate(Main)
    \/ InsAlloc(Main) \/ InsLink(Main) \/ InsPublish(Main) \/ InsUnlock(Main)
    \/ RemFound(Main) \/ RemLockVictim(Main) \/ RemMark(Main) \/ RemLock(Main)
    \/ RemValidate(Main) \/ RemUnlink(Main) \/ RemUnlockVictim(Main)
    \/ RemDelete(Main) \/ RemUnlock(Main)

NextEq ==
    \/ \E k \in Keys, v \in Values, lvl \in Levels, flvl \in Levels :
          SeqCallWith("insert", k, v, lvl, flvl)
    \/ \E k \in Keys : SeqRemove(k)
    \/ \E k \in Keys : SeqSearch(k)
    \/ SeqSteps

SpecEq == InitSeq /\ [][NextEq]_vars

\* ------------------------------------------------------------- FatSkipList, threads
\* The FatSkipList a sequential run of insert calls builds from contents c.
RECURSIVE FatBuildFrom(_, _, _)
FatBuildFrom(f, c, S) ==
    IF S = {} THEN f
    ELSE LET k == CHOOSE j \in S : \A i \in S : j <= i
         IN FatBuildFrom(FatInsert(f, k, InitValue, c[k]).list, c, S \ {k})
FatBuild(c) == FatBuildFrom(FatEmpty, c, DOMAIN c)

\* The main thread has built a FatSkipList of any contents; the LockedSkipList
\* stays empty and unused.
InitFat ==
    /\ node = EmptyList
    /\ pc = [t \in Threads |-> "idle"]
    /\ loc = [t \in Threads |-> InitLoc]
    /\ ops = [t \in Threads |-> 0]
    /\ hist = {}
    /\ uaf = FALSE
    /\ \E c \in Contents : fat = FatBuild(c)
    /\ fret = [ok |-> FALSE, rv |-> DefaultV, pok |-> FALSE]
    /\ snap = [node |-> EmptyList, fat |-> FatEmpty]
    /\ amap = EmptyMap
    /\ fmap = EmptyMap
    /\ fe = [t \in Threads |-> [active |-> FALSE, node |-> NULL]]

\* insert, remove and search take mutex_ in their first line (lines 340, 366,
\* 387) and hold it to their return: each is one step for the other threads.
FatLockedCall(t, op, k, v, lvl) ==
    /\ ops[t] < MaxOps
    /\ ~fe[t].active
    /\ ops' = [ops EXCEPT ![t] = @ + 1]
    /\ LET r == FatCall(fat, op, k, v, lvl)
       IN /\ fat' = r.list
          /\ fret' = [ok |-> r.ok, rv |-> r.rv, pok |-> fret.ok]
    /\ UNCHANGED <<node, pc, loc, hist, uaf, snap, amap, fmap, fe>>

\* for_each takes no lock.  line 410: node = header_->forward[0]
FatForEachBegin(t) ==
    /\ ops[t] < MaxOps
    /\ ~fe[t].active
    /\ ops' = [ops EXCEPT ![t] = @ + 1]
    /\ fe' = [fe EXCEPT ![t] = [active |-> TRUE,
                                node |-> fat.nodes[header_].forward[0]]]
    /\ UNCHANGED <<node, pc, loc, hist, uaf, fat, fret, snap, amap, fmap>>

\* lines 411-414, one iteration: cb(node->key, node->value); node =
\* node->forward[0].  Through a pointer to a destroyed node the read may yield
\* any pointer.
FatForEachStep(t) ==
    /\ fe[t].active
    /\ fe[t].node # NULL
    /\ \E nx \in (IF fat.nodes[fe[t].node].st = "live"
                  THEN {fat.nodes[fe[t].node].forward[0]}
                  ELSE {NULL} \cup {m \in NodeIds : fat.nodes[m].st # "free"}) :
          fe' = [fe EXCEPT ![t].node = nx]
    /\ UNCHANGED <<node, pc, loc, ops, hist, uaf, fat, fret, snap, amap, fmap>>

\* line 411: node is nullptr, the walk is over.
FatForEachEnd(t) ==
    /\ fe[t].active
    /\ fe[t].node = NULL
    /\ fe' = [fe EXCEPT ![t] = [active |-> FALSE, node |-> NULL]]
    /\ UNCHANGED <<node, pc, loc, ops, hist, uaf, fat, fret, snap, amap, fmap>>

NextFat ==
    \E t \in Workers :
       \/ \E k \in Keys, v \in Values, lvl \in Levels :
             FatLockedCall(t, "insert", k, v, lvl)
       \/ \E k \in Keys : FatLockedCall(t, "remove", k, DefaultV, 0)
       \/ \E k \in Keys : FatLockedCall(t, "search", k, DefaultV, 0)
       \/ FatForEachBegin(t) \/ FatForEachStep(t) \/ FatForEachEnd(t)

SpecFat == InitFat /\ [][NextFat]_vars

\* The last call of a sequential run, once returned, and the one before it.
SeqLast == {r \in LastCalls : r.done}
SeqPrev == {r \in hist : r.id = <<Main, ops[Main] - 1>>}
SeqValid == pc[Main] \notin {"ins_retry", "rem_invalid"}

Calls(op, k) == {r \in hist : r.op = op /\ r.key = k}
Returned(op, k) == {r \in Calls(op, k) : r.done}

\* The walk of for_each (lines 241-245): from header_->forward[0] along
\* forward[0], as far as it can be followed: to tail_, to a destroyed node, or
\* for as many nodes as there are.
RECURSIVE WalkFrom(_, _)
WalkFrom(n, fuel) ==
    IF n = tail_ \/ n = NULL \/ fuel = 0 \/ node[n].st # "live" THEN <<n>>
    ELSE <<n>> \o WalkFrom(node[n].forward[0], fuel - 1)
Walk == WalkFrom(node[header_].forward[0], Cardinality(NodeIds))
\* The walk ends at tail_ and the keys it visits strictly increase.
WalkSorted ==
    /\ Walk[Len(Walk)] = tail_
    /\ \A i \in 1..(Len(Walk) - 1) : \A j \in 1..(Len(Walk) - 1) :
          i < j => node[Walk[i]].key < node[Walk[j]].key

\* ------------------------------------------------------------- claims
\* C1: LockedSkipList is linearizable: in every reachable state the results
\* returned so far are those of some sequential execution of the calls on an
\* ordered map that respects the real-time order of non-overlapping calls.
\* Stated for the runs in which no thread has used freed memory, where every
\* step of the code has a defined result.
C1_Linearizable == uaf \/ LinFrom(hist, EmptyMap)

\* C2: membership: a search(k) invoked after insert(k, v) returned true, with
\* every remove(k) ever called having returned before that insert was invoked
\* (other threads work on other keys), returns (true, v).  Stated for the runs
\* in which no thread has used freed memory.
C2_Membership ==
    uaf \/ \A k \in Keys : \A i \in Returned("insert", k) :
              \A s \in Returned("search", k) :
                  ( /\ i.ok /\ i.id \in s.after
                    /\ \A r \in Calls("remove", k) : r.id \in i.after )
                  => (s.ok /\ s.rv = i.value)

\* C3: absence: a search(k) invoked after remove(k) returned true, with every
\* other insert(k, _) and remove(k) ever called having returned before that
\* remove was invoked (other threads work on other keys), returns (false, V{}).
C3_Absence ==
    \A k \in Keys : \A r \in Returned("remove", k) :
       \A s \in Returned("search", k) :
           ( /\ r.ok /\ r.id \in s.after
             /\ \A i \in Calls("insert", k) \cup (Calls("remove", k) \ {r}) :
                   i.id \in r.after )
           => (~s.ok /\ s.rv = DefaultV)

\* C6: concurrent removers of one key: when k was inserted once and the
\* workers call nothing but remove(k), at most one of the calls returns true,
\* exactly one once all have returned, and no two threads have marked the
\* same victim.
C6_OneRemoverWins ==
    /\ \A k \in Keys :
          ( /\ Cardinality(Calls("insert", k)) = 1
            /\ \A i \in Calls("insert", k) : i.done /\ i.ok
            /\ \A r \in hist : r.id[1] \in Workers => (r.op = "remove" /\ r.key = k) )
          => /\ Cardinality({r \in Returned("remove", k) : r.ok}) <= 1
             /\ ( Calls("remove", k) # {} /\ Calls("remove", k) = Returned("remove", k) )
                => Cardinality({r \in Returned("remove", k) : r.ok}) = 1
    /\ \A t1 \in Threads : \A t2 \in Threads :
          ( /\ t1 # t2 /\ loc[t1].is_marked /\ loc[t2].is_marked )
          => loc[t1].victim # loc[t2].victim

\* C9: concurrent exclusion: when the workers only remove, each key by one
\* thread at most, a search(k) of the main thread after the join, for a key k
\* whose remove was called, returns false.
C9_ConcurrentExclusion ==
    ( /\ \A r \in hist : r.id[1] \in Workers => r.op = "remove"
      /\ \A k \in Keys : Cardinality(Calls("remove", k)) <= 1 )
    => \A k \in Keys : \A s \in Returned("search", k) :
          (s.id[1] = Main /\ Calls("remove", k) # {}) => ~s.ok

\* C10: sortedness: once every call has returned, the walk of for_each along
\* forward[0] from header visits keys in strictly increasing order and
\* reaches tail.  Stated for the runs in which no thread has used freed memory.
C10_Sorted == uaf \/ (AllIdle => WalkSorted)

\* C4: duplicate insert: in a sequential run, an insert(k, v2) called while k
\* is present returns false and leaves the LockedSkipList as it found it (the
\* same nodes, the same forward pointers, the same values), and a search(k)
\* called next returns true with the value of the first successful insert.
C4_DuplicateInsert ==
    /\ \A r \in SeqLast :
          (r.op = "insert" /\ r.key \in DOMAIN amap)
          => (~r.ok /\ node = snap.node)
    /\ \A s \in SeqLast : \A r \in SeqPrev :
          ( /\ s.op = "search" /\ r.op = "insert" /\ r.key = s.key /\ ~r.ok )
          => (s.ok /\ s.rv = amap[s.key])
C4_Witness ==
    \E s \in SeqLast : \E r \in SeqPrev :
       /\ s.op = "search" /\ r.op = "insert" /\ r.key = s.key /\ ~r.ok
       /\ s.ok /\ s.rv = amap[s.key] /\ r.value # amap[s.key]
       /\ node = snap.node

\* C5: sequential remove, in either variant: remove(k) returns true if and
\* only if k is present; two remove(k) calls in a row on a present key return
\* true, then false; and a remove(k) of an absent key returns false and leaves
\* the list as it found it, so every forward pointer and the result of any
\* search stay the same.
C5_SequentialRemove ==
    \A r \in SeqLast :
       r.op = "remove" =>
          /\ r.ok = (r.key \in DOMAIN amap)
          /\ fret.ok = (r.key \in DOMAIN amap)
          /\ \A q \in SeqPrev :
                (q.op = "remove" /\ q.key = r.key /\ q.ok) => ~r.ok
          /\ \A q \in SeqPrev :
                (q.op = "remove" /\ q.key = r.key /\ fret.pok) => ~fret.ok
          /\ r.key \notin DOMAIN amap =>
                /\ node = snap.node
                /\ fat = snap.fat
                /\ \A j \in Keys : FatSearch(fat, j) = FatSearch(snap.fat, j)
C5_Witness ==
    \E r \in SeqLast : \E q \in SeqPrev :
       /\ r.op = "remove" /\ q.op = "remove" /\ q.key = r.key
       /\ q.ok /\ ~r.ok /\ fret.pok /\ ~fret.ok
       /\ node = snap.node /\ fat = snap.fat

\* C7: concurrent inserters of one key: when the workers only insert and k was
\* not in the list before, at most one insert(k, _) returns true and at most
\* one node with key k is reachable from header; once every insert(k, _) has
\* returned, exactly one returned true and exactly one node holds k.
NodesWith(k) == {i \in 1..Len(Walk) : Walk[i] # tail_ /\ node[Walk[i]].key = k}
C7_OneInserterWins ==
    \A k \in Keys :
       (\A i \in Calls("insert", k) : i.id[1] \in Workers) =>
          /\ Cardinality({i \in Returned("insert", k) : i.ok}) <= 1
          /\ Cardinality(NodesWith(k)) <= 1
          /\ ( Calls("insert", k) # {} /\ Calls("insert", k) = Returned("insert", k) )
             => /\ Cardinality({i \in Returned("insert", k) : i.ok}) = 1
                /\ Cardinality(NodesWith(k)) = 1
C7_Witness ==
    \E k \in Keys :
       /\ Cardinality(Calls("insert", k)) >= 2
       /\ \A i \in Calls("insert", k) : i.id[1] \in Workers /\ i.done
       /\ Cardinality({i \in Returned("insert", k) : i.ok}) = 1
       /\ Cardinality(NodesWith(k)) = 1

\* C8: concurrent inclusion: when every key is inserted by one call at most
\* (the threads insert disjoint keys), every insert that has returned returned
\* true, and after the join search(k) of the main thread returns true, with
\* the value inserted, for every key k that was inserted.
C8_ConcurrentInclusion ==
    (\A k \in Keys : Cardinality(Calls("insert", k)) <= 1) =>
       /\ \A k \in Keys : \A i \in Returned("insert", k) : i.ok
       /\ \A k \in Keys : \A s \in Returned("search", k) :
             \A i \in Calls("insert", k) :
                s.id[1] = Main => (s.ok /\ s.rv = i.value)
C8_Witness ==
    /\ \A k \in Keys : Cardinality(Calls("insert", k)) = 1
    /\ \A t \in Workers : \E k \in Keys : \E i \in Returned("insert", k) :
          i.id[1] = t /\ i.ok
    /\ \E k \in Keys : \E s \in Returned("search", k) :
          \E i \in Calls("insert", k) :
             s.id[1] = Main /\ i.id[1] \in Workers /\ s.ok /\ s.rv = i.value

\* Fair scheduling of every thread: a thread that can again and again take a
\* step of its call (a mutex it waits for is free again and again) takes one.
ThreadStep(t) == Find(t) \/ SearchSteps(t) \/ InsertSteps(t) \/ RemoveSteps(t)
SpecFair == Spec /\ \A t \in Threads : SF_vars(ThreadStep(t))

\* C11: termination: under fair scheduling of every thread, every insert,
\* remove and search call that has begun eventually returns.
C11_Termination == \A t \in Threads : (pc[t] # "idle") ~> (pc[t] = "idle")

\* C12: variant equivalence: in a sequential run, whatever levels the two
\* lists draw, every call returns the same boolean from the FatSkipList and
\* from the LockedSkipList, a failed search returns V{} from both, a
\* successful search(k) returns the value of the first successful insert of k
\* from the LockedSkipList and the value of the last insert(k, _) from the
\* FatSkipList (so the two differ only after a duplicate insert), and between
\* calls for_each visits the same keys in the same order in both.
WalkKeys == [i \in 1..(Len(Walk) - 1) |-> node[Walk[i]].key]
FatWalkKeys == [i \in 1..Len(FatWalk(fat)) |-> fat.nodes[FatWalk(fat)[i]].key]
C12_VariantEquivalence ==
    /\ \A r \in SeqLast :
          /\ r.ok = fret.ok
          /\ r.op = "search" =>
                IF r.ok THEN r.rv = amap[r.key] /\ fret.rv = fmap[r.key]
                ELSE r.rv = DefaultV /\ fret.rv = DefaultV
          /\ r.op # "search" => (r.rv = DefaultV /\ fret.rv = DefaultV)
    /\ AllIdle => (Walk[Len(Walk)] = tail_ /\ WalkKeys = FatWalkKeys)
C12_Witness ==
    /\ \E r \in SeqLast : \E q \in SeqPrev :
          /\ r.op = "search" /\ r.ok /\ fret.ok
          /\ q.op = "insert" /\ q.key = r.key /\ ~q.ok
          /\ r.rv = amap[r.key] /\ fret.rv = q.value /\ r.rv # fret.rv
    /\ AllIdle /\ WalkKeys = FatWalkKeys /\ Len(WalkKeys) >= 1

\* C13: FatSkipList isolation: while a thread is inside a for_each traversal
\* no call of another thread changes the list: no forward pointer is written
\* and no node is destroyed between two steps of the traversal.
C13_FatIsolation ==
    [][(\E t \in Workers : fe[t].active) => fat' = fat]_vars

\* C14: remove validation failure: a remove whose validation of the
\* predecessors failed (valid = false) writes no forward pointer and does not
\* destroy the victim in that attempt: it is never past the unlink loop, on
\* its way to delete the victim and to return true, with valid = false.
\* Stated for the runs in which no thread has used freed memory.
C14_RemoveRetries ==
    uaf \/ \A t \in Threads :
              pc[t] \in {"rem_unlock_victim", "rem_delete", "rem_unlock"}
              => loc[t].valid

\* C15: lock-protected splicing: whenever insert or remove is about to write
\* p.forward[L] of a predecessor p (insert: the levels from level up to
\* node_level; remove: the levels from level down to 0), the writing thread
\* holds p's mutex, and what it validated under that lock still holds: p is
\* not marked and p.forward[L] is the expected successor (insert) or the
\* victim (remove).  Stated for the runs in which no thread has used freed
\* memory.
C15_LockedSplicing ==
    uaf \/ \A t \in Threads :
       /\ pc[t] = "ins_link" =>
             \A L \in loc[t].level..loc[t].node_level :
                LET p == loc[t].preds[L] IN
                /\ node[p].mtx = t
                /\ ~node[p].marked
                /\ L > loc[t].level => node[p].forward[L] = loc[t].succs[L]
       /\ pc[t] = "rem_unlink" =>
             \A L \in 0..loc[t].level :
                LET p == loc[t].preds[L] IN
                /\ node[p].mtx = t
                /\ ~node[p].marked
                /\ node[p].forward[L] = loc[t].victim

\* C16: no live node is lost: every node that is fully linked, not marked and
\* not destroyed is on the level-0 chain from header.  Stated for the runs in
\* which no thread has used freed memory.
WalkNodes == {Walk[i] : i \in 1..Len(Walk)}
C16_NoLiveNodeLost ==
    uaf \/ \A n \in NodeIds :
              (node[n].st = "live" /\ node[n].fully_linked /\ ~node[n].marked)
              => n \in WalkNodes

\* The chain of level L: from header_->forward[L] along forward[L], as far as
\* it can be followed.
RECURSIVE ChainFrom(_, _, _)
ChainFrom(n, L, fuel) ==
    IF n = tail_ \/ n = NULL \/ fuel = 0 \/ node[n].st # "live" THEN <<n>>
    ELSE <<n>> \o ChainFrom(node[n].forward[L], L, fuel - 1)
Chain(L) == ChainFrom(node[header_].forward[L], L, Cardinality(NodeIds))

\* a is b with some elements left out, the others in the same order.
RECURSIVE IsSubSeq(_, _)
IsSubSeq(a, b) ==
    IF a = <<>> THEN TRUE
    ELSE IF b = <<>> THEN FALSE
    ELSE IF Head(a) = Head(b) THEN IsSubSeq(Tail(a), Tail(b))
    ELSE IsSubSeq(a, Tail(b))

\* C17: level chains are sub-chains: at every level L the chain from header
\* along forward[L] ends at tail, holds only nodes of node_level >= L, and is
\* a subsequence, in the same order, of the level-0 chain.  Stated for the
\* runs in which no thread has used freed memory.
C17_SubChains ==
    uaf \/ \A L \in Levels :
              /\ Chain(L)[Len(Chain(L))] = tail_
              /\ \A i \in 1..(Len(Chain(L)) - 1) : node[Chain(L)[i]].node_level >= L
              /\ IsSubSeq(Chain(L), Chain(0))

\* The nodes reachable from header along the forward pointers of live nodes.
RECURSIVE ReachFrom(_)
ReachFrom(S) ==
    LET N == S \cup ({node[n].forward[L] :
                         n \in {m \in S : m # tail_ /\ node[m].st = "live"},
                         L \in Levels} \ {NULL})
    IN IF N = S THEN S ELSE ReachFrom(N)
Reach == ReachFrom({header_})

\* C18: unlink before destroy: no forward pointer of header or of a node
\* reachable from header points to a destroyed node: no destroyed node is
\* reachable.  Stated for the runs in which no thread has used freed memory.
C18_UnlinkBeforeDestroy == uaf \/ \A n \in Reach : ~IsDead(n)

\* C19: no access after destruction: no thread reads a field of, locks,
\* unlocks or writes a forward pointer of a node that a remove has destroyed.
C19_NoUseAfterDestroy == ~uaf


\* test_random_ops (thread_test.cc lines 65-97): every worker inserts the keys
\* of a range, then removes the keys of a range, on a list that starts empty;
\* the value of key k is to_string(k).
ValueOf(k) == IF k \in Values THEN k ELSE InitValue

InitRand == InitWith(EmptyMap)

RandInsert(t, k, lvl) == ops[t] = 0 /\ InvokeInsert(t, k, ValueOf(k), lvl)
RandRemove(t, k) == ops[t] < RandOps /\ InvokeRemove(t, k)

NextRand ==
    \/ \E t \in Workers, k \in Keys, lvl \in Levels : RandInsert(t, k, lvl)
    \/ \E t \in Workers, k \in Keys : RandRemove(t, k)
    \/ \E t \in Workers : Find(t) \/ InsertSteps(t) \/ RemoveSteps(t)

SpecRand == InitRand /\ [][NextRand]_vars

\* The phase of a node: INSERTING between its allocation and line 151, LIVE
\* while fully_linked and not marked, DYING once marked (line 183), destroyed
\* after `delete victim` (line 212).
Phase(nd, n) ==
    IF nd[n].st = "free" THEN "unallocated"
    ELSE IF nd[n].st = "dead" THEN "destroyed"
    ELSE IF nd[n].marked THEN "DYING"
    ELSE IF nd[n].fully_linked THEN "LIVE"
    ELSE "INSERTING"

PhaseRank(p) ==
    CASE p = "unallocated" -> 0
      [] p = "INSERTING" -> 1
      [] p = "LIVE" -> 2
      [] p = "DYING" -> 3
      [] p = "destroyed" -> 4

\* The thread that executes `victim->marked = true` on n in this step.
Marker(n) ==
    {t \in Threads : /\ pc[t] = "rem_mark" /\ pc'[t] = "rem_lock"
                     /\ loc[t].victim = n}

\* One step of node n keeps to the state machine.
NodeStepOk(n) ==
    /\ PhaseRank(Phase(node', n)) >= PhaseRank(Phase(node, n))
    /\ (node[n].st = "live" /\ node'[n].st = "live") =>
          /\ node[n].marked => node'[n].marked
          /\ node[n].fully_linked => node'[n].fully_linked
    /\ (node[n].st = "live" /\ ~node[n].marked /\ node'[n].marked) =>
          /\ node[n].fully_linked
          /\ \E t \in Marker(n) : node[n].mtx = t
    /\ (node[n].st = "live" /\ node'[n].st = "dead") => node[n].marked

\* C20: node state machine: every node only moves forward through INSERTING,
\* LIVE, DYING, destroyed; marked and fully_linked never go from true to false;
\* a node is marked only if it is already fully_linked and only by a thread
\* that holds the node's mutex; a node is destroyed only after it was marked.
C20_NodeStateMachine == [][\A n \in NodeIds : NodeStepOk(n)]_vars

\* ------------------------------------------------------------- locks
\* The node whose mutex thread t is about to lock: the victim at line 176,
\* preds[level] at lines 127 and 191 unless locked_nodes already has it.
LockTarget(t) ==
    IF pc[t] = "rem_lock_victim" THEN {loc[t].victim}
    ELSE IF pc[t] \in {"ins_lock", "rem_lock"}
    THEN {loc[t].preds[loc[t].level]} \ loc[t].locked_nodes
    ELSE {}

\* Thread t is blocked in lock() on a mutex that thread u owns.
WaitsFor(t, u) ==
    \E n \in LockTarget(t) : ~IsDead(n) /\ node[n].mtx = u

\* The threads that t waits for, directly or through other waiting threads.
RECURSIVE WaitReach(_)
WaitReach(S) ==
    LET T == S \cup {u \in Threads : \E t \in S : WaitsFor(t, u)}
    IN IF T = S THEN S ELSE WaitReach(T)

WaitsOn(t) == WaitReach({u \in Threads : WaitsFor(t, u)})

\* The predecessors a call locks have non-increasing keys level by level, and
\* a remove's victim has a larger key than its predecessors.  A destroyed node
\* has no key to compare.
LockOrder(t) ==
    /\ pc[t] \in {"ins_lock", "rem_lock"} =>
          \A L \in 1..loc[t].level :
             (~IsDead(loc[t].preds[L]) /\ ~IsDead(loc[t].preds[L - 1])) =>
                node[loc[t].preds[L]].key <= node[loc[t].preds[L - 1]].key
    /\ (/\ pc[t] = "rem_lock"
        /\ ~IsDead(loc[t].preds[loc[t].level])
        /\ ~IsDead(loc[t].victim)) =>
          node[loc[t].preds[loc[t].level]].key < node[loc[t].victim].key

\* The nodes whose mutex thread t owns.
Held(t) == {n \in NodeIds : node[n].st = "live" /\ node[n].mtx = t}

UnlockTarget(t) ==
    IF pc[t] \in {"ins_retry", "ins_unlock", "rem_invalid", "rem_unlock"}
    THEN loc[t].locked_nodes
    ELSE IF pc[t] = "rem_unlock_victim" THEN {loc[t].victim}
    ELSE IF pc[t] = "rem_mark" /\ TRUE \in RdMarked(loc[t].victim)
    THEN {loc[t].victim}
    ELSE {}

\* C22: lock balance: a thread unlocks a node mutex only while it owns it, so
\* once per acquisition and never a mutex that is free or that another thread
\* owns, and a thread that is in no call owns no node mutex.  Stated for the
\* nodes that are not destroyed, in the runs in which no thread has used freed
\* memory.
C22_LockBalance ==
    uaf \/ \A t \in Threads :
              /\ \A n \in UnlockTarget(t) : IsDead(n) \/ node[n].mtx = t
              /\ pc[t] = "idle" => Held(t) = {}

====
